---- MODULE Spec2Model ----
(***************************************************************************)
(* open-notify-api: the three fetch operations astros(), iss_now() and     *)
(* iss_pass_times(), the JSON decoding serde derives for their reply       *)
(* types, and the validation each *_from_json function applies.            *)
(***************************************************************************)
EXTENDS Integers, Sequences, FiniteSets, TLC

\* ------------------------------------------------------------------ bounds
MaxPeople == 2
MaxPasses == 2
MaxCallers == 2

\* --------------------------------------------------------------- integers
\* i32::MIN and i32::MAX, the range of Astros.number.
I32Max == 2147483647
I32Min == (-I32Max) - 1

\* A usize is kept as little-endian 16-bit limbs, so that its full width is
\* represented: 64 bits on the targets the crate is built for.
LimbBase == 2^16
UsizeLimbs == 64 \div 16

\* A non-negative machine integer below 2^31 as a usize.
UsizeOfNat(n) ==
  [i \in 1..UsizeLimbs |->
     IF i = 1 THEN n % LimbBase
     ELSE IF i = 2 THEN n \div LimbBase
     ELSE 0]

\* Sign handling that takes the magnitude instead of sign-extending.
AsUsizeAbs(n) ==
  IF n >= 0 THEN UsizeOfNat(n)
  ELSE IF n = I32Min THEN UsizeOfNat(0)
  ELSE UsizeOfNat(-n)

\* `astros.number as usize`: an i32 is sign-extended to the width of usize.
AsUsize(n) ==
  IF n >= 0 THEN UsizeOfNat(n)
  ELSE LET m == (n + I32Max) + 1   \* the low 31 bits of the two's complement
       IN [i \in 1..UsizeLimbs |->
             IF i = 1 THEN m % LimbBase
             ELSE IF i = 2 THEN (m \div LimbBase) + (LimbBase \div 2)
             ELSE LimbBase - 1]

\* `astros.people.len()`: the length of a Vec, a usize.
VecLen(v) == UsizeOfNat(Len(v))

\* ------------------------------------------------------------ JSON values
\* A JSON document as serde_json sees it.  An integer literal inside the i32
\* range is JInt(n); JWide(d) is the integer literal i32::MAX + d, d >= 1,
\* which fits i64 and u32 but not i32; JFloat(s) is a literal with a fraction.
Absent == [t |-> "absent"]
JNull == [t |-> "null"]
JStr(s) == [t |-> "str", s |-> s]
JInt(n) == [t |-> "int", n |-> n]
JWide(d) == [t |-> "wide", d |-> d]
JFloat(s) == [t |-> "float", f |-> s]
JArr(s) == [t |-> "arr", a |-> s]
\* An object built from a record of optional members: the Absent ones are
\* not members of the object.
JObj(r) == [t |-> "obj", o |-> [k \in {f \in DOMAIN r : r[f] # Absent} |-> r[k]]]

\* The text of a reply body: either a JSON document or text that is none.
NotJson == [json |-> FALSE]
JsonText(root) == [json |-> TRUE, root |-> root]

\* Lookup of a member of an object; Absent when the object has none.
Field(j, k) == IF k \in DOMAIN j.o THEN j.o[k] ELSE Absent

\* ---------------------------------------------------------------- results
Ok(v) == [ok |-> TRUE, val |-> v]
Err(e) == [ok |-> FALSE, err |-> e]

\* serde_json::Error, by its category.
SyntaxError == [category |-> "syntax"]
DataError == [category |-> "data"]
\* std::error::Error::description of a serde_json::Error.
Description(e) == "JSON error"

\* The error kinds of the crate.
Data(s) == [kind |-> "Data", msg |-> s]
Parsing(s) == [kind |-> "Parsing", msg |-> s]
Network(s) == [kind |-> "Network", msg |-> s]
FromSerdeError(e) == Parsing(Description(e))
FromReqwestError(e) == Network(e)

\* ------------------------------------------------------- serde: primitives
StringFromJson(j) == IF j.t = "str" THEN Ok(j.s) ELSE Err(DataError)
I32FromJson(j) ==
  IF j.t = "int" /\ j.n >= I32Min /\ j.n <= I32Max THEN Ok(j.n) ELSE Err(DataError)
\* An i64, u32 or f32 value is kept as the literal it was read from.
I64FromJson(j) == IF j.t \in {"int", "wide"} THEN Ok(j) ELSE Err(DataError)
U32FromJson(j) ==
  IF (j.t = "int" /\ j.n >= 0) \/ j.t = "wide" THEN Ok(j) ELSE Err(DataError)
F32FromJson(j) == IF j.t \in {"int", "wide", "float"} THEN Ok(j) ELSE Err(DataError)

\* ------------------------------------------------------------ serde: Person
\* A decoder that fills a missing `craft` with the empty string.
PersonFromJsonLenient(j) ==
  IF j.t # "obj" THEN Err(DataError)
  ELSE LET name == StringFromJson(Field(j, "name"))
           craft == IF Field(j, "craft") = Absent THEN Ok("")
                    ELSE StringFromJson(Field(j, "craft"))
       IN IF ~name.ok THEN name
          ELSE IF ~craft.ok THEN craft
          ELSE Ok([name |-> name.val, craft |-> craft.val])

\* #[derive(Deserialize)] struct Person { name: String, craft: String }
PersonFromJson(j) ==
  IF j.t # "obj" THEN Err(DataError)
  ELSE LET name == StringFromJson(Field(j, "name"))
           craft == StringFromJson(Field(j, "craft"))
       IN IF ~name.ok THEN name
          ELSE IF ~craft.ok THEN craft
          ELSE Ok([name |-> name.val, craft |-> craft.val])

\* Vec<Person>: an array whose elements all decode; the first failure
\* is returned.
VecPersonFromJson(j) ==
  IF j.t # "arr" THEN Err(DataError)
  ELSE LET bad == {i \in 1..Len(j.a) : ~PersonFromJson(j.a[i]).ok}
       IN IF bad # {}
          THEN PersonFromJson(j.a[CHOOSE i \in bad : \A k \in bad : i <= k])
          ELSE Ok([i \in 1..Len(j.a) |-> PersonFromJson(j.a[i]).val])

\* ------------------------------------------------------------ serde: Astros
\* #[derive(Deserialize)] struct Astros { message, number: i32, people }
AstrosFromJson(j) ==
  IF j.t # "obj" THEN Err(DataError)
  ELSE LET message == StringFromJson(Field(j, "message"))
           number == I32FromJson(Field(j, "number"))
           people == VecPersonFromJson(Field(j, "people"))
       IN IF ~message.ok THEN message
          ELSE IF ~number.ok THEN number
          ELSE IF ~people.ok THEN people
          ELSE Ok([message |-> message.val, number |-> number.val,
                   people |-> people.val])

\* serde_json::from_str::<Astros>
AstrosFromStr(data) ==
  IF ~data.json THEN Err(SyntaxError) ELSE AstrosFromJson(data.root)

\* Astros::message and Astros::people
AstrosMessage(a) == a.message
AstrosPeople(a) == a.people

CountMismatch == "attribute 'number' does not match length of people field"
\* The explanation without the upstream status string.
NoSuccessBare(message) == "attribute message indicates no success"
\* format!("attribute message indicates no success but {}", message)
NoSuccess(message) == "attribute message indicates no success but " \o message

\* The two checks in the opposite order.
AstrosValidateStatusFirst(astros) ==
  IF AstrosMessage(astros) # "success" THEN Err(Data(NoSuccess(astros.message)))
  ELSE IF AsUsize(astros.number) # VecLen(astros.people) THEN Err(Data(CountMismatch))
  ELSE Ok(astros)

\* The count check dropped.
AstrosValidateNoCount(astros) ==
  IF AstrosMessage(astros) # "success" THEN Err(Data(NoSuccess(astros.message)))
  ELSE Ok(astros)

\* astro_from_json after the decoding: the count check, then the status check.
AstrosValidate(astros) ==
  IF AsUsize(astros.number) # VecLen(astros.people) THEN Err(Data(CountMismatch))
  ELSE IF AstrosMessage(astros) # "success" THEN Err(Data(NoSuccess(astros.message)))
  ELSE Ok(astros)

astro_from_json(data) ==
  LET parsed == AstrosFromStr(data)
  IN IF ~parsed.ok THEN Err(FromSerdeError(parsed.err))
     ELSE AstrosValidate(parsed.val)

\* ------------------------------------------------------------ serde: IssNow
\* #[derive(Deserialize)] struct IssPosition { latitude: String, longitude: String }
IssPositionFromJson(j) ==
  IF j.t # "obj" THEN Err(DataError)
  ELSE LET latitude == StringFromJson(Field(j, "latitude"))
           longitude == StringFromJson(Field(j, "longitude"))
       IN IF ~latitude.ok THEN latitude
          ELSE IF ~longitude.ok THEN longitude
          ELSE Ok([latitude |-> latitude.val, longitude |-> longitude.val])

\* #[derive(Deserialize)] struct IssNow { message, timestamp: i64, iss_position }
IssNowFromJson(j) ==
  IF j.t # "obj" THEN Err(DataError)
  ELSE LET message == StringFromJson(Field(j, "message"))
           timestamp == I64FromJson(Field(j, "timestamp"))
           iss_position == IssPositionFromJson(Field(j, "iss_position"))
       IN IF ~message.ok THEN message
          ELSE IF ~timestamp.ok THEN timestamp
          ELSE IF ~iss_position.ok THEN iss_position
          ELSE Ok([message |-> message.val, timestamp |-> timestamp.val,
                   iss_position |-> iss_position.val])

\* serde_json::from_str::<IssNow>
IssNowFromStr(data) ==
  IF ~data.json THEN Err(SyntaxError) ELSE IssNowFromJson(data.root)

\* IssNow::message, IssNow::timestamp
IssNowMessage(n) == n.message
timestamp(n) == n.timestamp

\* An accessor that reads the other coordinate.
latitudeSwapped(n) == n.iss_position.longitude

\* IssNow::latitude, IssNow::longitude
latitude(n) == n.iss_position.latitude
longitude(n) == n.iss_position.longitude

iss_now_from_json(data) ==
  LET parsed == IssNowFromStr(data)
  IN IF ~parsed.ok THEN Err(FromSerdeError(parsed.err))
     ELSE LET iss_now == parsed.val
          IN IF IssNowMessage(iss_now) # "success"
             THEN Err(Data(NoSuccess(iss_now.message)))
             ELSE Ok(iss_now)

\* ------------------------------------------------------ serde: IssPassTimes
\* #[derive(Default, Deserialize)] struct IssPassTimesRequest
IssPassTimesRequestDefault ==
  [latitude |-> JFloat("0"), longitude |-> JFloat("0"), altitude |-> JFloat("0"),
   passes |-> JInt(0), datetime |-> JInt(0)]

IssPassTimesRequestFromJson(j) ==
  IF j.t # "obj" THEN Err(DataError)
  ELSE LET lat == F32FromJson(Field(j, "latitude"))
           lon == F32FromJson(Field(j, "longitude"))
           alt == F32FromJson(Field(j, "altitude"))
           passes == U32FromJson(Field(j, "passes"))
           datetime == I64FromJson(Field(j, "datetime"))
       IN IF ~lat.ok THEN lat
          ELSE IF ~lon.ok THEN lon
          ELSE IF ~alt.ok THEN alt
          ELSE IF ~passes.ok THEN passes
          ELSE IF ~datetime.ok THEN datetime
          ELSE Ok([latitude |-> lat.val, longitude |-> lon.val, altitude |-> alt.val,
                   passes |-> passes.val, datetime |-> datetime.val])

\* #[derive(Deserialize)] struct IssPassTime { risetime: i64, duration: i64 }
IssPassTimeFromJson(j) ==
  IF j.t # "obj" THEN Err(DataError)
  ELSE LET risetime == I64FromJson(Field(j, "risetime"))
           duration == I64FromJson(Field(j, "duration"))
       IN IF ~risetime.ok THEN risetime
          ELSE IF ~duration.ok THEN duration
          ELSE Ok([risetime |-> risetime.val, duration |-> duration.val])

\* Vec<IssPassTime>: an array whose elements all decode; the first failure
\* is returned.
VecIssPassTimeFromJson(j) ==
  IF j.t # "arr" THEN Err(DataError)
  ELSE LET bad == {i \in 1..Len(j.a) : ~IssPassTimeFromJson(j.a[i]).ok}
       IN IF bad # {}
          THEN IssPassTimeFromJson(j.a[CHOOSE i \in bad : \A k \in bad : i <= k])
          ELSE Ok([i \in 1..Len(j.a) |-> IssPassTimeFromJson(j.a[i]).val])

\* IssPassTime::rise, IssPassTime::duration
rise(p) == p.risetime
duration(p) == p.duration

\* `reason` required like `message`, without #[serde(default)].
ReasonFromJsonRequired(j) == StringFromJson(j)

\* #[serde(default)] reason: String
ReasonFromJson(j) == IF j = Absent THEN Ok("") ELSE StringFromJson(j)

\* #[derive(Deserialize)] struct IssPassTimes; all members but `message`
\* are #[serde(default)].
IssPassTimesFromJson(j) ==
  IF j.t # "obj" THEN Err(DataError)
  ELSE LET message == StringFromJson(Field(j, "message"))
           reason == ReasonFromJson(Field(j, "reason"))
           request == IF Field(j, "request") = Absent
                      THEN Ok(IssPassTimesRequestDefault)
                      ELSE IssPassTimesRequestFromJson(Field(j, "request"))
           response == IF Field(j, "response") = Absent
                       THEN Ok(<<>>)
                       ELSE VecIssPassTimeFromJson(Field(j, "response"))
       IN IF ~message.ok THEN message
          ELSE IF ~reason.ok THEN reason
          ELSE IF ~request.ok THEN request
          ELSE IF ~response.ok THEN response
          ELSE Ok([message |-> message.val, reason |-> reason.val,
                   request |-> request.val, response |-> response.val])

\* serde_json::from_str::<IssPassTimes>
IssPassTimesFromStr(data) ==
  IF ~data.json THEN Err(SyntaxError) ELSE IssPassTimesFromJson(data.root)

\* IssPassTimes::passes
passes(t) == t.response

iss_pass_times_from_json(data) ==
  LET parsed == IssPassTimesFromStr(data)
  IN IF ~parsed.ok THEN Err(FromSerdeError(parsed.err))
     ELSE LET iss_pass_times == parsed.val
          IN IF iss_pass_times.message # "success"
             THEN Err(Data(iss_pass_times.reason))
             ELSE Ok(iss_pass_times)

\* ------------------------------------------------------------ reply bodies
SeqUpTo(S, n) == UNION {[1..k -> S] : k \in 0..n}

Messages == {"success", "unsuccess", "Success", ""}
MessageJsons == {Absent, JNull} \cup {JStr(m) : m \in Messages}

Numbers == {I32Min, -1, 0, 1, 2, 3, I32Max}
NumberJsons ==
  {Absent, JStr("1"), JFloat("1.5"), JWide(1)} \cup {JInt(n) : n \in Numbers}

PersonJsons ==
  { JObj([name |-> JStr("Scott Tingle"), craft |-> JStr("ISS")]),
    JObj([name |-> JStr("Oleg Artemyev"), craft |-> JStr("Soyuz MS-08")]),
    JObj([name |-> JStr("Oleg Artemyev"), craft |-> Absent]),
    JObj([name |-> JStr("Scott Tingle"), craft |-> JInt(8)]),
    JStr("Scott Tingle") }
PeopleJsons == {Absent, JNull} \cup {JArr(s) : s \in SeqUpTo(PersonJsons, MaxPeople)}

AstroBodies ==
  {NotJson, JsonText(JNull)} \cup
  { JsonText(JObj([message |-> m, number |-> n, people |-> p])) :
      m \in MessageJsons, n \in NumberJsons, p \in PeopleJsons }

CoordinateJsons == {Absent, JStr("-34.6445"), JStr("73.5964"), JFloat("-34.6445")}
PositionJsons ==
  {Absent, JStr("73.5964")} \cup
  { JObj([latitude |-> la, longitude |-> lo]) :
      la \in CoordinateJsons, lo \in CoordinateJsons }
TimestampJsons == {Absent, JStr("0"), JFloat("1.5"), JInt(1521971230), JInt(-1), JWide(7)}

IssNowBodies ==
  {NotJson, JsonText(JNull)} \cup
  { JsonText(JObj([message |-> m, timestamp |-> ts, iss_position |-> p])) :
      m \in MessageJsons, ts \in TimestampJsons, p \in PositionJsons }

ReasonJsons == {Absent, JNull, JStr("bad altitude"), JStr("")}
RequestJsons ==
  { Absent,
    JObj([latitude |-> JFloat("52.5"), longitude |-> JFloat("13.4"),
          altitude |-> JInt(10), passes |-> JInt(5), datetime |-> JInt(1521971230)]),
    JObj([latitude |-> JFloat("52.5"), longitude |-> JFloat("13.4"),
          altitude |-> JInt(10), passes |-> JInt(-5), datetime |-> JInt(1521971230)]),
    JObj([latitude |-> JFloat("52.5"), longitude |-> JFloat("13.4"),
          altitude |-> JInt(10), passes |-> JInt(5), datetime |-> Absent]) }
PassJsons ==
  { JObj([risetime |-> JInt(1521971230), duration |-> JInt(600)]),
    JObj([risetime |-> JWide(7), duration |-> JInt(45)]),
    JObj([risetime |-> JInt(1521971230), duration |-> Absent]),
    JObj([risetime |-> JStr("now"), duration |-> JInt(600)]) }
ResponseJsons == {Absent, JNull} \cup {JArr(s) : s \in SeqUpTo(PassJsons, MaxPasses)}

IssPassTimesBodies ==
  {NotJson, JsonText(JNull)} \cup
  { JsonText(JObj([message |-> m, reason |-> r, request |-> q, response |-> p])) :
      m \in MessageJsons, r \in ReasonJsons, q \in RequestJsons, p \in ResponseJsons }

\* ============================================================== the state
VARIABLES
  jfn,       \* harness: the *_from_json function under test, or "off"
  input,     \* harness: the text handed to it
  output,    \* harness: what it returned, Pending before the call
  pc,        \* per caller: where its invocation stands
  op,        \* per caller: the fetch operation invoked
  arg,       \* per caller: the arguments of the invocation
  sent,      \* per caller: the URLs of the GET requests the invocation issued
  reply,     \* per caller: what the transport answered to its request
  buf,       \* per caller: the String holding the body text
  parsed,    \* per caller: whether *_from_json was entered
  ret,       \* per caller: the outcome returned, Pending before
  outcomes   \* per caller: how many outcomes the invocation returned

jvars == <<jfn, input, output>>
fvars == <<pc, op, arg, sent, reply, buf, parsed, ret, outcomes>>
vars == <<jfn, input, output, pc, op, arg, sent, reply, buf, parsed, ret, outcomes>>

Pending == [ok |-> FALSE, pending |-> TRUE]
Callers == 1..MaxCallers
NoArgs == [lat |-> "", lon |-> "", alt |-> "", n |-> 0]
NoReply == [get |-> Pending, text |-> Pending]

\* The *_from_json function each fetch operation hands the body text to.
FromJsonOf(o, data) ==
  IF o = "astros" THEN astro_from_json(data)
  ELSE IF o = "iss_now" THEN iss_now_from_json(data)
  ELSE iss_pass_times_from_json(data)

\* ------------------------------------- the *_from_json functions on their own
JsonIdle == jfn = "off" /\ input = NotJson /\ output = Pending
FetchIdle ==
  /\ pc = [c \in Callers |-> "idle"]
  /\ op = [c \in Callers |-> "none"]
  /\ arg = [c \in Callers |-> NoArgs]
  /\ sent = [c \in Callers |-> <<>>]
  /\ reply = [c \in Callers |-> NoReply]
  /\ buf = [c \in Callers |-> NotJson]
  /\ parsed = [c \in Callers |-> FALSE]
  /\ ret = [c \in Callers |-> Pending]
  /\ outcomes = [c \in Callers |-> 0]

InitJson ==
  /\ \/ jfn = "astro_from_json" /\ input \in AstroBodies
     \/ jfn = "iss_now_from_json" /\ input \in IssNowBodies
     \/ jfn = "iss_pass_times_from_json" /\ input \in IssPassTimesBodies
  /\ output = Pending
  /\ FetchIdle

ApplyAstroFromJson ==
  /\ jfn = "astro_from_json" /\ output = Pending
  /\ output' = astro_from_json(input)
  /\ UNCHANGED <<jfn, input, fvars>>

ApplyIssNowFromJson ==
  /\ jfn = "iss_now_from_json" /\ output = Pending
  /\ output' = iss_now_from_json(input)
  /\ UNCHANGED <<jfn, input, fvars>>

ApplyIssPassTimesFromJson ==
  /\ jfn = "iss_pass_times_from_json" /\ output = Pending
  /\ output' = iss_pass_times_from_json(input)
  /\ UNCHANGED <<jfn, input, fvars>>

NextJson == ApplyAstroFromJson \/ ApplyIssNowFromJson \/ ApplyIssPassTimesFromJson
SpecJson == InitJson /\ [][NextJson]_vars

\* ------------------------------------------------------ the fetch operations
\* f32 arguments are written as `{}` prints them.
PassArgs ==
  { [lat |-> "52.5", lon |-> "13.4", alt |-> "10", n |-> 5],
    [lat |-> "51", lon |-> "13.5", alt |-> "440", n |-> 10] }

\* The URL each operation requests.
Url(o, a) ==
  IF o = "astros" THEN "http://api.open-notify.org/astros.json"
  ELSE IF o = "iss_now" THEN "http://api.open-notify.org/iss-now.json"
  ELSE "http://api.open-notify.org/iss-pass.json?lat=" \o a.lat \o "&lon=" \o a.lon
         \o "&alt=" \o a.alt \o "&n=" \o ToString(a.n)

\* What the transport may answer: reqwest::get gives a response or an error,
\* Response::text gives the body text or an error.
GetResults == {Ok("response"), Err("connection failed")}
Body(m, n, p) == JsonText(JObj([message |-> JStr(m), number |-> JInt(n), people |-> JArr(p)]))
Tingle == JObj([name |-> JStr("Scott Tingle"), craft |-> JStr("ISS")])
NoCraft == JObj([name |-> JStr("Oleg Artemyev"), craft |-> Absent])
UpstreamBodies(o) ==
  IF o = "astros"
  THEN { NotJson, Body("success", 1, <<Tingle>>), Body("success", 2, <<Tingle>>),
         Body("unsuccess", 1, <<Tingle>>), Body("success", 1, <<NoCraft>>) }
  ELSE IF o = "iss_now"
  THEN { NotJson,
         JsonText(JObj([message |-> JStr("success"), timestamp |-> JInt(1521971230),
                        iss_position |-> JObj([latitude |-> JStr("-34.6445"),
                                               longitude |-> JStr("73.5964")])])),
         JsonText(JObj([message |-> JStr("unsuccess"), timestamp |-> JInt(1521971230),
                        iss_position |-> JObj([latitude |-> JStr("-34.6445"),
                                               longitude |-> JStr("73.5964")])])),
         JsonText(JObj([message |-> JStr("success"), timestamp |-> JInt(1521971230),
                        iss_position |-> Absent])) }
  ELSE { NotJson,
         JsonText(JObj([message |-> JStr("success"), reason |-> Absent,
                        response |-> JArr(<<JObj([risetime |-> JInt(1521971230),
                                                  duration |-> JInt(600)])>>)])),
         JsonText(JObj([message |-> JStr("failure"), reason |-> JStr("bad altitude"),
                        response |-> Absent])),
         JsonText(JObj([message |-> JStr("success"), reason |-> Absent,
                        response |-> JNull])) }
TextResults(o) == {Ok(b) : b \in UpstreamBodies(o)} \cup {Err("body read failed")}

\* A failed GET is tried again.
GetOutcomePcRetry(r) == IF r.ok THEN "text" ELSE "get"
\* `reqwest::get(..)?`: an error returns from the operation.
GetOutcomePc(r) == IF r.ok THEN "text" ELSE "done"

\* A failed read of the body is passed over and the text parsed all the same.
TextOutcomePcIgnore(r) == "json"
\* `.text()?`: an error returns from the operation.
TextOutcomePc(r) == IF r.ok THEN "json" ELSE "done"

\* One buffer for all callers.
StoreTextShared(b, c, text) == [k \in Callers |-> text]
\* The body text is a String owned by the invocation.
StoreText(b, c, text) == [b EXCEPT ![c] = text]

InitFetch == JsonIdle /\ FetchIdle

Invoke(c, o, a) ==
  /\ pc[c] = "idle"
  /\ pc' = [pc EXCEPT ![c] = "get"]
  /\ op' = [op EXCEPT ![c] = o]
  /\ arg' = [arg EXCEPT ![c] = a]
  /\ UNCHANGED <<jvars, sent, reply, buf, parsed, ret, outcomes>>

astros(c) == Invoke(c, "astros", NoArgs)
iss_now(c) == Invoke(c, "iss_now", NoArgs)
iss_pass_times(c) == \E a \in PassArgs : Invoke(c, "iss_pass_times", a)

\* reqwest::get(url)?
Get(c) ==
  /\ pc[c] = "get"
  /\ \E r \in GetResults :
       /\ sent' = [sent EXCEPT ![c] = Append(@, Url(op[c], arg[c]))]
       /\ reply' = [reply EXCEPT ![c].get = r]
       /\ pc' = [pc EXCEPT ![c] = GetOutcomePc(r)]
       /\ IF GetOutcomePc(r) = "done"
          THEN /\ ret' = [ret EXCEPT ![c] = Err(FromReqwestError(r.err))]
               /\ outcomes' = [outcomes EXCEPT ![c] = @ + 1]
          ELSE UNCHANGED <<ret, outcomes>>
  /\ UNCHANGED <<jvars, op, arg, buf, parsed>>

\* .text()?
Text(c) ==
  /\ pc[c] = "text"
  /\ \E r \in TextResults(op[c]) :
       /\ reply' = [reply EXCEPT ![c].text = r]
       /\ buf' = IF r.ok THEN StoreText(buf, c, r.val) ELSE buf
       /\ pc' = [pc EXCEPT ![c] = TextOutcomePc(r)]
       /\ IF TextOutcomePc(r) = "done"
          THEN /\ ret' = [ret EXCEPT ![c] = Err(FromReqwestError(r.err))]
               /\ outcomes' = [outcomes EXCEPT ![c] = @ + 1]
          ELSE UNCHANGED <<ret, outcomes>>
  /\ UNCHANGED <<jvars, op, arg, sent, parsed>>

\* astro_from_json(&text), iss_now_from_json(&text), iss_pass_times_from_json(&text)
FromJson(c) ==
  /\ pc[c] = "json"
  /\ parsed' = [parsed EXCEPT ![c] = TRUE]
  /\ ret' = [ret EXCEPT ![c] = FromJsonOf(op[c], buf[c])]
  /\ outcomes' = [outcomes EXCEPT ![c] = @ + 1]
  /\ pc' = [pc EXCEPT ![c] = "done"]
  /\ UNCHANGED <<jvars, op, arg, sent, reply, buf>>

\* The caller takes the outcome; nothing of the invocation is kept.
Return(c) ==
  /\ pc[c] = "done"
  /\ pc' = [pc EXCEPT ![c] = "idle"]
  /\ op' = [op EXCEPT ![c] = "none"]
  /\ arg' = [arg EXCEPT ![c] = NoArgs]
  /\ sent' = [sent EXCEPT ![c] = <<>>]
  /\ reply' = [reply EXCEPT ![c] = NoReply]
  /\ buf' = [buf EXCEPT ![c] = NotJson]
  /\ parsed' = [parsed EXCEPT ![c] = FALSE]
  /\ ret' = [ret EXCEPT ![c] = Pending]
  /\ outcomes' = [outcomes EXCEPT ![c] = 0]
  /\ UNCHANGED jvars

Init == InitFetch
Next ==
  \E c \in Callers :
    \/ astros(c)
    \/ iss_now(c)
    \/ iss_pass_times(c)
    \/ Get(c)
    \/ Text(c)
    \/ FromJson(c)
    \/ Return(c)
Spec == Init /\ [][Next]_vars

\* ================================================================ claims
\* The wire shapes of the three replies, read off the JSON document itself.
IsMember(j, k, types) == Field(j, k).t \in types
IsOptional(j, k, types) == Field(j, k).t \in (types \cup {"absent"})

PersonShape(j) ==
  j.t = "obj" /\ IsMember(j, "name", {"str"}) /\ IsMember(j, "craft", {"str"})
ManifestShape(data) ==
  /\ data.json
  /\ data.root.t = "obj"
  /\ IsMember(data.root, "message", {"str"})
  /\ IsMember(data.root, "number", {"int"})
  /\ Field(data.root, "people").t = "arr"
  /\ \A i \in 1..Len(Field(data.root, "people").a) :
       PersonShape(Field(data.root, "people").a[i])

PositionShape(j) ==
  j.t = "obj" /\ IsMember(j, "latitude", {"str"}) /\ IsMember(j, "longitude", {"str"})
LocationShape(data) ==
  /\ data.json
  /\ data.root.t = "obj"
  /\ IsMember(data.root, "message", {"str"})
  /\ IsMember(data.root, "timestamp", {"int", "wide"})
  /\ PositionShape(Field(data.root, "iss_position"))

PassShape(j) ==
  /\ j.t = "obj"
  /\ IsMember(j, "risetime", {"int", "wide"})
  /\ IsMember(j, "duration", {"int", "wide"})
EchoShape(j) ==
  /\ j.t = "obj"
  /\ IsMember(j, "latitude", {"int", "wide", "float"})
  /\ IsMember(j, "longitude", {"int", "wide", "float"})
  /\ IsMember(j, "altitude", {"int", "wide", "float"})
  /\ IsMember(j, "passes", {"int", "wide"})
  /\ (Field(j, "passes").t = "int" => Field(j, "passes").n >= 0)
  /\ IsMember(j, "datetime", {"int", "wide"})
PredictionShape(data) ==
  /\ data.json
  /\ data.root.t = "obj"
  /\ IsMember(data.root, "message", {"str"})
  /\ IsOptional(data.root, "reason", {"str"})
  /\ Field(data.root, "request") # Absent => EchoShape(Field(data.root, "request"))
  /\ Field(data.root, "response") # Absent =>
       /\ Field(data.root, "response").t = "arr"
       /\ \A i \in 1..Len(Field(data.root, "response").a) :
            PassShape(Field(data.root, "response").a[i])

\* What a well-shaped document says.
SaidMessage(data) == Field(data.root, "message").s
SaidNumber(data) == Field(data.root, "number").n
SaidPeople(data) ==
  LET a == Field(data.root, "people").a
  IN [i \in 1..Len(a) |-> [name |-> Field(a[i], "name").s,
                           craft |-> Field(a[i], "craft").s]]
SaidReason(data) ==
  IF Field(data.root, "reason") = Absent THEN "" ELSE Field(data.root, "reason").s
SaidPasses(data) ==
  IF Field(data.root, "response") = Absent THEN <<>>
  ELSE LET a == Field(data.root, "response").a
       IN [i \in 1..Len(a) |-> [risetime |-> Field(a[i], "risetime"),
                                duration |-> Field(a[i], "duration")]]

AstroReturned == jfn = "astro_from_json" /\ output # Pending
IssNowReturned == jfn = "iss_now_from_json" /\ output # Pending
IssPassTimesReturned == jfn = "iss_pass_times_from_json" /\ output # Pending

\* C1: astro_from_json returns success exactly when the body has the manifest
\* shape, its `number` equals the number of `people` and its `message` is
\* "success"; the manifest returned then carries the people of the body in
\* their order, so number = length(people) and message = "success" hold of
\* every manifest returned.
C1_SuccessIffConsistent ==
  AstroReturned =>
    /\ output.ok <=> /\ ManifestShape(input)
                     /\ SaidNumber(input) = Len(SaidPeople(input))
                     /\ SaidMessage(input) = "success"
    /\ output.ok =>
         /\ AstrosPeople(output.val) = SaidPeople(input)
         /\ output.val.number = Len(AstrosPeople(output.val))
         /\ AstrosMessage(output.val) = "success"
C1_Witness ==
  /\ AstroReturned /\ output.ok
  /\ Len(AstrosPeople(output.val)) = 2
  /\ AstrosPeople(output.val)[1] # AstrosPeople(output.val)[2]

\* C2: a body of the manifest shape whose `number` differs from the number
\* of `people` yields the count-mismatch Data error, whatever its `message`.
C2_CountMismatchFirst ==
  (AstroReturned /\ ManifestShape(input)
     /\ SaidNumber(input) # Len(SaidPeople(input))) =>
    output = Err([kind |-> "Data",
                  msg |-> "attribute 'number' does not match length of people field"])
C2_Witness ==
  /\ AstroReturned /\ ManifestShape(input)
  /\ SaidNumber(input) # Len(SaidPeople(input))
  /\ SaidMessage(input) = "unsuccess"
  /\ ~output.ok /\ output.err.kind = "Data"

ConsistentUnsuccessful ==
  /\ AstroReturned /\ ManifestShape(input)
  /\ SaidNumber(input) = Len(SaidPeople(input))
  /\ SaidMessage(input) # "success"

\* C4 as claimed: the Data error's payload equals the value of `message`.
C4_PayloadIsMessage ==
  ConsistentUnsuccessful => output = Err([kind |-> "Data", msg |-> SaidMessage(input)])
\* C4 as amended: a consistent body of the manifest shape whose `message` is
\* not "success" yields a Data error whose payload is the text "attribute
\* message indicates no success but " followed by the value of `message`.
C4_PayloadEmbedsMessage ==
  ConsistentUnsuccessful =>
    output = Err([kind |-> "Data",
                  msg |-> "attribute message indicates no success but "
                            \o SaidMessage(input)])
C4_Witness ==
  /\ ConsistentUnsuccessful /\ SaidMessage(input) = "unsuccess"
  /\ Len(SaidPeople(input)) = 1
  /\ ~output.ok /\ output.err.kind = "Data"

\* C5: a body of the pass-prediction shape whose `message` is not "success"
\* yields a Data error whose payload is `reason`, the empty string when the
\* body has none; with `message` "success" it yields the passes of
\* `response` in their order.
C5_ReasonIsPayload ==
  (IssPassTimesReturned /\ PredictionShape(input)) =>
    IF SaidMessage(input) # "success"
    THEN output = Err([kind |-> "Data", msg |-> SaidReason(input)])
    ELSE output.ok /\ passes(output.val) = SaidPasses(input)
C5_Witness ==
  /\ IssPassTimesReturned /\ PredictionShape(input)
  /\ SaidMessage(input) = "unsuccess"
  /\ Field(input.root, "reason") = Absent
  /\ output = Err([kind |-> "Data", msg |-> ""])

\* C8: a body of the position shape yields a Data error when its `message`
\* is not "success", and otherwise an IssNow whose timestamp(), latitude()
\* and longitude() are the values of the body, the coordinates as the
\* strings received.
C8_PositionAsReceived ==
  (IssNowReturned /\ LocationShape(input)) =>
    IF SaidMessage(input) # "success"
    THEN ~output.ok /\ output.err.kind = "Data"
    ELSE /\ output.ok
         /\ timestamp(output.val) = Field(input.root, "timestamp")
         /\ latitude(output.val) = Field(Field(input.root, "iss_position"), "latitude").s
         /\ longitude(output.val) = Field(Field(input.root, "iss_position"), "longitude").s
C8_Witness ==
  /\ IssNowReturned /\ output.ok
  /\ timestamp(output.val) = JInt(1521971230)
  /\ latitude(output.val) = "-34.6445"
  /\ longitude(output.val) = "73.5964"

\* Order of two usize values, from the most significant limb down.
RECURSIVE UsizeLtFrom(_, _, _)
UsizeLtFrom(a, b, i) ==
  IF i = 0 THEN FALSE
  ELSE IF a[i] # b[i] THEN a[i] < b[i]
  ELSE UsizeLtFrom(a, b, i - 1)
UsizeLt(a, b) == UsizeLtFrom(a, b, UsizeLimbs)

\* C10: a body of the manifest shape whose `number` is negative is never
\* accepted: as a usize the number exceeds the length of every people list,
\* and the count-mismatch Data error is returned, for the empty list too.
C10_NegativeNumberRejected ==
  (AstroReturned /\ ManifestShape(input) /\ SaidNumber(input) < 0) =>
    /\ UsizeLt(VecLen(SaidPeople(input)), AsUsize(SaidNumber(input)))
    /\ output = Err([kind |-> "Data",
                     msg |-> "attribute 'number' does not match length of people field"])
C10_Witness ==
  /\ AstroReturned /\ ManifestShape(input)
  /\ SaidNumber(input) = -1 /\ SaidPeople(input) = <<>>
  /\ SaidMessage(input) = "success"
  /\ ~output.ok /\ output.err.kind = "Data"

\* The shape the body of each operation's reply is expected to have.
ShapeOf(o, data) ==
  IF o = "astros" THEN ManifestShape(data)
  ELSE IF o = "iss_now" THEN LocationShape(data)
  ELSE PredictionShape(data)

TransportFailed(c) == ~reply[c].get.ok \/ ~reply[c].text.ok
Kind(c) == IF ret[c].ok THEN "none" ELSE ret[c].err.kind

C7_OneRequestOneOutcome ==
  \A c \in Callers :
    /\ Len(sent[c]) <= 1
    /\ outcomes[c] <= 1
    /\ pc[c] \in {"text", "json"} => (Len(sent[c]) = 1 /\ outcomes[c] = 0)
    /\ pc[c] = "done" =>
         /\ Len(sent[c]) = 1 /\ sent[c][1] = Url(op[c], arg[c])
         /\ outcomes[c] = 1 /\ ret[c] # Pending
C7_Witness ==
  \E c \in Callers :
    /\ pc[c] = "done" /\ op[c] = "iss_pass_times"
    /\ ~reply[c].get.ok /\ Kind(c) = "Network"
    /\ Len(sent[c]) = 1 /\ outcomes[c] = 1

\* The outcome of an invocation that runs with no other beside it.
Alone(o, r) ==
  IF ~r.get.ok THEN Err([kind |-> "Network", msg |-> r.get.err])
  ELSE IF ~r.text.ok THEN Err([kind |-> "Network", msg |-> r.text.err])
  ELSE FromJsonOf(o, r.text.val)

\* C9: in every interleaving of the callers' invocations, the outcome of
\* each is the outcome it has when run alone on the reply to its own
\* request.
C9_OutcomeOfOwnReply ==
  \A c \in Callers : pc[c] = "done" => ret[c] = Alone(op[c], reply[c])
C9_Witness ==
  \E c, d \in Callers :
    /\ c # d /\ pc[c] = "done" /\ pc[d] = "done"
    /\ op[c] = "astros" /\ op[d] = "astros"
    /\ parsed[c] /\ parsed[d]
    /\ ret[c].ok /\ ~ret[d].ok

====
